---- MODULE Spec2Model ----
(***************************************************************************)
(* Model of install.py: the installer / uninstaller of the shared-TOTP     *)
(* captive-portal extension.  The state is the filesystem the script       *)
(* touches (config.xml, its timestamped backups, the secret file, the      *)
(* copied auth connector) and the position of the running process.         *)
(* Every process invocation is one call of main(); the steps of do_install *)
(* and do_remove are the statements of those functions, in order.          *)
(* A write of config.xml is one step (tree.write runs to completion); a    *)
(* process can be killed between any two steps.  --build-zip touches none  *)
(* of the files modelled here and is left out; config.xml always has its   *)
(* <system> section.                                                       *)
(***************************************************************************)
EXTENDS Integers, Sequences, FiniteSets, TLC

(* ---------------- bounds of the model ---------------- *)
MaxAuths == 2
MaxZones == 1
MaxTemplates == 1
MaxActions == 2
MaxClock == 1

(* ---------------- literals of the source ---------------- *)
\* an XML element that is not there (find() returns None)
Absent == "<absent>"
\* an element with no text; '' and None serialise to the same bytes
Empty == ""
SHAREDTOTP == "sharedtotp"
TOTP_NAME == "TOTP Guest Access"
VOUCHER_NAME == "voucher server"
TEMPLATE_NAME == "TOTP Dark Portal"
MODE_SECRET == "0640"
MODE_DEFAULT == "0644"
GROUP_SECRET == "wwwonly"
GROUP_DEFAULT == "wheel"

(* ---------------- pure helpers ---------------- *)
SeqUpTo(S, n) == UNION {[1..k -> S] : k \in 0..n}

Min(a, b) == IF a < b THEN a ELSE b

RECURSIVE SelectSeq2(_, _)
\* the entries of s, in order, whose type is sharedtotp (keepTotp) or is not
SelectSeq2(s, keepTotp) ==
    IF s = <<>> THEN <<>>
    ELSE IF (Head(s).type = SHAREDTOTP) = keepTotp
         THEN <<Head(s)>> \o SelectSeq2(Tail(s), keepTotp)
         ELSE SelectSeq2(Tail(s), keepTotp)

\* authserver entries whose <type> text is 'sharedtotp'
TotpEntries(auths) == SelectSeq2(auths, TRUE)
OtherEntries(auths) == SelectSeq2(auths, FALSE)
CountTotp(auths) == Len(TotpEntries(auths))

\* str(uuid.uuid4()): a value never produced before
Uuid4(n) == "uuid-" \o ToString(n)

\* format(int(time.time()), 'x') + uuid.uuid4().hex[:5]
NewRefid(now, n) == "t" \o ToString(now) \o "-" \o ToString(n)

\* base64.b32encode(secret_bytes).decode('ascii')
Base32Secret(bytes) == "B32:" \o ToString(bytes)

(* ---------------- inputs ---------------- *)
\* os.urandom(20): the values the generator can return
SecretBytes == {1, 2}

AuthPool ==
    { [refid |-> "r-ldap", type |-> "ldap", name |-> "Corp LDAP"],
      [refid |-> "r-totp", type |-> SHAREDTOTP, name |-> TOTP_NAME],
      [refid |-> "r-cust", type |-> SHAREDTOTP, name |-> "Guest TOTP"],
      [refid |-> "r-anon", type |-> Absent, name |-> Absent] }

ZonePool ==
    { [authservers |-> a, template |-> t] :
        a \in {Absent, VOUCHER_NAME, "Guest TOTP"}, t \in {Absent, "ext-1"} }

TemplatePool ==
    { [uuid |-> "ext-1", name |-> "Operator Portal", content |-> "zip-ext"] }

\* the bodies config.xml can have when the script is first run
CaptivePortals ==
    { [cp |-> FALSE, zonesEl |-> FALSE, zones |-> <<>>,
       templatesEl |-> FALSE, templates |-> <<>>] }
    \cup
    { [cp |-> TRUE, zonesEl |-> FALSE, zones |-> <<>>,
       templatesEl |-> te, templates |-> ts] :
         te \in BOOLEAN, ts \in {<<>>} }
    \cup
    { [cp |-> TRUE, zonesEl |-> TRUE, zones |-> zs,
       templatesEl |-> FALSE, templates |-> <<>>] :
         zs \in SeqUpTo(ZonePool, MaxZones) }
    \cup
    { [cp |-> TRUE, zonesEl |-> TRUE, zones |-> zs,
       templatesEl |-> TRUE, templates |-> ts] :
         zs \in SeqUpTo(ZonePool, MaxZones),
         ts \in SeqUpTo(TemplatePool, MaxTemplates) }

MkDoc(auths, c) ==
    [auths |-> auths, cp |-> c.cp, zonesEl |-> c.zonesEl, zones |-> c.zones,
     templatesEl |-> c.templatesEl, templates |-> c.templates]

InitDocs == { MkDoc(as, c) : as \in SeqUpTo(AuthPool, MaxAuths), c \in CaptivePortals }

NoFile == [exists |-> FALSE, lines |-> <<>>, mode |-> MODE_DEFAULT, group |-> GROUP_DEFAULT]

InitSecretFiles ==
    { NoFile,
      [exists |-> TRUE, lines |-> <<Base32Secret(1)>>, mode |-> MODE_SECRET, group |-> GROUP_SECRET] }

(* ---------------- the transformations of the document ---------------- *)
\* install.py:66-74: the loop that looks for an authserver of type sharedtotp
Existing(auths) == \E i \in DOMAIN auths : auths[i].type = SHAREDTOTP

\* a find-or-create step that gives the found entry the fixed display name
UpdateAuthservers_Rename(auths, refid) ==
    IF Existing(auths)
    THEN [i \in DOMAIN auths |->
            IF auths[i].type = SHAREDTOTP THEN [auths[i] EXCEPT !.name = TOTP_NAME]
            ELSE auths[i]]
    ELSE Append(auths, [refid |-> refid, type |-> SHAREDTOTP, name |-> TOTP_NAME])

\* a find-or-create step that never finds
UpdateAuthservers_AlwaysCreate(auths, refid) ==
    Append(auths, [refid |-> refid, type |-> SHAREDTOTP, name |-> TOTP_NAME])

\* install.py:66-83: the authserver list after the find-or-create step
UpdateAuthservers(auths, refid) ==
    IF Existing(auths) THEN auths
    ELSE Append(auths, [refid |-> refid, type |-> SHAREDTOTP, name |-> TOTP_NAME])

\* install.py:89-94: a zone after the binding step
BindZone(zone) ==
    IF zone.authservers # Absent
    THEN [zone EXCEPT !.authservers = TOTP_NAME]
    ELSE zone

\* install.py:62-96: the document update_config writes
UpdateConfigDoc(doc, refid) ==
    [doc EXCEPT
       !.auths = UpdateAuthservers(doc.auths, refid),
       !.zones = IF doc.cp /\ doc.zonesEl
                 THEN [i \in DOMAIN doc.zones |-> BindZone(doc.zones[i])]
                 ELSE doc.zones]

\* install.py:102-112: the base64 text of the archive of the two assets
ZipB64 == "b64(zip(index.html,css/signin.css))"

\* an embedding that removes only the entries carrying the tool's template name
EmbedTemplates_KeepOthers(templates, template_uuid) ==
    SelectSeq(templates, LAMBDA t : t.name # TEMPLATE_NAME)
    \o <<[uuid |-> template_uuid, name |-> TEMPLATE_NAME, content |-> ZipB64]>>

\* install.py:122-133: the templates collection after embedding
EmbedTemplates(templates, template_uuid) ==
    <<[uuid |-> template_uuid, name |-> TEMPLATE_NAME, content |-> ZipB64]>>

\* a zone loop that skips the zones without a <template> element
SetZoneTemplate_OnlyExisting(zone, template_uuid) ==
    IF zone.template # Absent THEN [zone EXCEPT !.template = template_uuid] ELSE zone

\* install.py:135-143: a zone after the template reference is set
SetZoneTemplate(zone, template_uuid) == [zone EXCEPT !.template = template_uuid]

\* an embedding that replaces the templates and leaves the zones as they are
EmbedTemplateDoc_NoZones(doc, template_uuid) ==
    [doc EXCEPT
       !.templatesEl = TRUE,
       !.templates = EmbedTemplates(doc.templates, template_uuid)]

\* install.py:122-145: the document embed_template writes (captiveportal present)
EmbedTemplateDoc(doc, template_uuid) ==
    [doc EXCEPT
       !.templatesEl = TRUE,
       !.templates = EmbedTemplates(doc.templates, template_uuid),
       !.zones = IF doc.zonesEl
                 THEN [i \in DOMAIN doc.zones |-> SetZoneTemplate(doc.zones[i], template_uuid)]
                 ELSE doc.zones]

\* a removal that leaves the template reference of the zone in place
RestoreZone_KeepTemplate(zone) ==
    [authservers |-> IF zone.authservers # Absent THEN VOUCHER_NAME ELSE Absent,
     template |-> zone.template]

\* install.py:220-226: a zone after do_remove
RestoreZone(zone) ==
    [authservers |-> IF zone.authservers # Absent THEN VOUCHER_NAME ELSE Absent,
     template |-> IF zone.template # Absent THEN Empty ELSE Absent]

\* a removal that drops every authserver that is not of another known type
RemoveAuthservers_Untyped(auths) ==
    SelectSeq(auths, LAMBDA a : a.type # SHAREDTOTP /\ a.type # Absent)

\* a removal loop that stops at the first sharedtotp entry it removes
RemoveAuthservers_First(auths) ==
    IF \E i \in DOMAIN auths : auths[i].type = SHAREDTOTP
    THEN LET k == CHOOSE i \in DOMAIN auths :
                     /\ auths[i].type = SHAREDTOTP
                     /\ \A j \in 1..(i - 1) : auths[j].type # SHAREDTOTP
         IN  SubSeq(auths, 1, k - 1) \o SubSeq(auths, k + 1, Len(auths))
    ELSE auths

\* install.py:232-236: the authserver list after do_remove
RemoveAuthservers(auths) == OtherEntries(auths)

\* install.py:213-238: the document do_remove writes
RemoveDoc(doc) ==
    [doc EXCEPT
       !.auths = RemoveAuthservers(doc.auths),
       !.zones = IF doc.cp /\ doc.zonesEl
                 THEN [i \in DOMAIN doc.zones |-> RestoreZone(doc.zones[i])]
                 ELSE doc.zones,
       !.templates = IF doc.cp /\ doc.templatesEl THEN <<>> ELSE doc.templates]

\* a backup step that keeps only the newest backup file
BackupFiles_Rotate(files, now, doc) == (now :> doc)

\* a backup step that copies nothing
BackupFiles_None(files, now, doc) == files

\* install.py:53-55: the backup files after shutil.copy2 at second `now'
BackupFiles(files, now, doc) == (now :> doc) @@ files

\* a secret file opened in append mode
WriteSecretFile_Append(file, bytes, chmodOk, chownOk) ==
    [exists |-> TRUE,
     lines |-> Append(file.lines, Base32Secret(bytes)),
     mode |-> IF chmodOk THEN MODE_SECRET
              ELSE IF file.exists THEN file.mode ELSE MODE_DEFAULT,
     group |-> IF chmodOk /\ chownOk THEN GROUP_SECRET
               ELSE IF file.exists THEN file.group ELSE GROUP_DEFAULT]

\* install.py:34-38: the secret file after open(..., 'w'), write, chmod, chown
WriteSecretFile(file, bytes, chmodOk, chownOk) ==
    [exists |-> TRUE,
     lines |-> <<Base32Secret(bytes)>>,
     mode |-> IF chmodOk THEN MODE_SECRET
              ELSE IF file.exists THEN file.mode ELSE MODE_DEFAULT,
     group |-> IF chmodOk /\ chownOk THEN GROUP_SECRET
               ELSE IF file.exists THEN file.group ELSE GROUP_DEFAULT]

(* ---------------- state ---------------- *)
VARIABLES
    cfg,         \* content of /conf/config.xml
    backups,     \* timestamp suffix -> content of /conf/config.xml.bak.<suffix>
    clock,       \* the last value int(time.time()) returned
    secretFile,  \* /usr/local/etc/captiveportal_totp.conf
    plugin,      \* TRUE when SharedTOTP.php is at AUTH_CONNECTOR_DEST
    pc,          \* position of the current process
    act,         \* the entry action main() selected
    nextUuid,    \* number of uuid4() values drawn so far
    cfg0,        \* config.xml as it stood when the current action started
    secret0,     \* the secret file as it stood when the current action started
    cfgInit,     \* config.xml before the first action
    hist,        \* the entry actions started so far, oldest first
    allDone,     \* every earlier action ran to completion
    snap,        \* the backup taken since the last write, if any
    wlog,        \* the last write of config.xml by the current action
    genlog,      \* what gen_secret did and printed in the current action
    cmds         \* the configctl commands run by the current action

vars == <<cfg, backups, clock, secretFile, plugin, pc, act, nextUuid, cfg0,
          secret0, cfgInit, hist, allDone, snap, wlog, genlog, cmds>>

fsVars == <<cfg, backups, clock, secretFile, plugin, nextUuid>>
ghostVars == <<cfg0, secret0, cfgInit, hist, allDone>>

NoSnap == [fresh |-> FALSE, at |-> 0]
NoWrite == [by |-> "none", guarded |-> TRUE, n |-> 0]
NoGen == [ran |-> FALSE, chmod |-> "not run", chown |-> "not run",
          secret |-> Empty, uri |-> FALSE]

Stopped == {"idle", "done", "fatal", "crashed"}

Init ==
    /\ cfg \in InitDocs
    /\ backups = <<>>
    /\ clock = 0
    /\ secretFile \in InitSecretFiles
    /\ plugin = FALSE
    /\ pc = "idle"
    /\ act = "none"
    /\ nextUuid = 1
    /\ cfg0 = cfg
    /\ secret0 = secretFile
    /\ cfgInit = cfg
    /\ hist = <<>>
    /\ allDone = TRUE
    /\ snap = NoSnap
    /\ wlog = NoWrite
    /\ genlog = NoGen
    /\ cmds = <<>>

\* the first statement of each entry action
FirstStep(a) ==
    CASE a = "install" -> "i_copy"
      [] a = "remove" -> "r_backup"
      [] a = "gen_secret" -> "g_gen"

\* install.py:257-284: a new process runs main() with one of the flags
main ==
    /\ pc \in Stopped
    /\ Len(hist) < MaxActions
    /\ \E a \in {"install", "remove", "gen_secret"} :
         /\ act' = a
         /\ pc' = FirstStep(a)
         /\ hist' = Append(hist, a)
    /\ allDone' = (allDone /\ pc \in {"idle", "done"})
    /\ cfg0' = cfg
    /\ secret0' = secretFile
    /\ snap' = NoSnap
    /\ wlog' = NoWrite
    /\ genlog' = NoGen
    /\ cmds' = <<>>
    /\ UNCHANGED <<fsVars, cfgInit>>

\* install.py:29-50: gen_secret, continuing at `next' when it returns
gen_secret(next) ==
    \E bytes \in SecretBytes, chmodOk \in BOOLEAN, chownOk \in BOOLEAN :
        /\ secretFile' = WriteSecretFile(secretFile, bytes, chmodOk, chownOk)
        /\ genlog' = [ran |-> TRUE,
                      chmod |-> IF chmodOk THEN "ok" ELSE "failed",
                      chown |-> IF ~chmodOk THEN "not run"
                                ELSE IF chownOk THEN "ok" ELSE "failed",
                      secret |-> IF chmodOk THEN Base32Secret(bytes) ELSE Empty,
                      uri |-> chmodOk]
        /\ pc' = IF chmodOk THEN next ELSE "fatal"

\* install.py:53-55: backup_config, continuing at `next'
backup_config(next) ==
    \E now \in clock..Min(clock + 1, MaxClock) :
        /\ clock' = now
        /\ backups' = BackupFiles(backups, now, cfg)
        /\ snap' = [fresh |-> TRUE, at |-> now]
        /\ pc' = next

\* tree.write(CONFIG_XML, ...) by function `by'
WriteConfig(doc, by) ==
    /\ cfg' = doc
    /\ wlog' = [by |-> by,
                guarded |-> wlog.guarded /\ snap.fresh /\ snap.at \in DOMAIN backups
                            /\ backups[snap.at] = cfg,
                n |-> wlog.n + 1]
    /\ snap' = [snap EXCEPT !.fresh = FALSE]

\* a configctl that does not check the exit status (check=False)
configctl_Unchecked(cmd, next) ==
    \E ok \in BOOLEAN :
        /\ cmds' = Append(cmds, [cmd |-> cmd, ok |-> ok])
        /\ pc' = next

\* install.py:158-160: configctl(*args), continuing at `next' on exit status 0
configctl(cmd, next) ==
    \E ok \in BOOLEAN :
        /\ cmds' = Append(cmds, [cmd |-> cmd, ok |-> ok])
        /\ pc' = IF ok THEN next ELSE "fatal"

(* ---------------- do_install ---------------- *)
\* install.py:168-170
InstallCopyConnector ==
    /\ pc = "i_copy"
    /\ \E ok \in BOOLEAN :
         IF ok THEN plugin' = TRUE /\ pc' = "i_secret"
               ELSE plugin' = plugin /\ pc' = "fatal"
    /\ UNCHANGED <<cfg, backups, clock, secretFile, nextUuid, act, ghostVars, snap, wlog, genlog, cmds>>

\* install.py:172-177
InstallSecret ==
    /\ pc = "i_secret"
    /\ IF secretFile.exists
       THEN pc' = "i_backup" /\ UNCHANGED <<secretFile, genlog>>
       ELSE gen_secret("i_backup")
    /\ UNCHANGED <<cfg, backups, clock, plugin, nextUuid, act, ghostVars, snap, wlog, cmds>>

\* install.py:60
InstallBackup ==
    /\ pc = "i_backup"
    /\ backup_config("i_update")
    /\ UNCHANGED <<cfg, secretFile, plugin, nextUuid, act, ghostVars, wlog, genlog, cmds>>

\* install.py:62-97
InstallUpdateConfig ==
    /\ pc = "i_update"
    /\ \E now \in clock..Min(clock + 1, MaxClock) :
         /\ clock' = now
         /\ WriteConfig(UpdateConfigDoc(cfg, NewRefid(now, nextUuid)), "update_config")
    /\ nextUuid' = IF Existing(cfg.auths) THEN nextUuid ELSE nextUuid + 1
    /\ pc' = "i_pack"
    /\ UNCHANGED <<backups, secretFile, plugin, act, ghostVars, genlog, cmds>>

\* install.py:102-113: reading the assets fails when one is missing
InstallPack ==
    /\ pc = "i_pack"
    /\ \E assetsOk \in BOOLEAN : pc' = IF assetsOk THEN "i_embed" ELSE "fatal"
    /\ UNCHANGED <<fsVars, act, ghostVars, snap, wlog, genlog, cmds>>

\* install.py:113-146
InstallEmbedTemplate ==
    /\ pc = "i_embed"
    /\ nextUuid' = nextUuid + 1
    /\ IF cfg.cp
       THEN /\ WriteConfig(EmbedTemplateDoc(cfg, Uuid4(nextUuid)), "embed_template")
            /\ pc' = "i_reload"
       ELSE /\ pc' = "fatal"
            /\ UNCHANGED <<cfg, wlog, snap>>
    /\ UNCHANGED <<backups, clock, secretFile, plugin, act, ghostVars, genlog, cmds>>

\* install.py:189
InstallReload ==
    /\ pc = "i_reload"
    /\ configctl("template reload", "i_restart")
    /\ UNCHANGED <<fsVars, act, ghostVars, snap, wlog, genlog>>

\* install.py:190
InstallRestart ==
    /\ pc = "i_restart"
    /\ configctl("captiveportal restart", "done")
    /\ UNCHANGED <<fsVars, act, ghostVars, snap, wlog, genlog>>

(* ---------------- do_remove ---------------- *)
\* install.py:211
RemoveBackup ==
    /\ pc = "r_backup"
    /\ backup_config("r_write")
    /\ UNCHANGED <<cfg, secretFile, plugin, nextUuid, act, ghostVars, wlog, genlog, cmds>>

\* install.py:213-239
RemoveConfig ==
    /\ pc = "r_write"
    /\ WriteConfig(RemoveDoc(cfg), "do_remove")
    /\ pc' = "r_plugin"
    /\ UNCHANGED <<backups, clock, secretFile, plugin, nextUuid, act, ghostVars, genlog, cmds>>

\* install.py:241-243
RemoveConnector ==
    /\ pc = "r_plugin"
    /\ plugin' = FALSE
    /\ pc' = "r_secret"
    /\ UNCHANGED <<cfg, backups, clock, secretFile, nextUuid, act, ghostVars, snap, wlog, genlog, cmds>>

\* install.py:245-247
RemoveSecret ==
    /\ pc = "r_secret"
    /\ secretFile' = IF secretFile.exists THEN NoFile ELSE secretFile
    /\ pc' = "r_reload"
    /\ UNCHANGED <<cfg, backups, clock, plugin, nextUuid, act, ghostVars, snap, wlog, genlog, cmds>>

\* install.py:250
RemoveReload ==
    /\ pc = "r_reload"
    /\ configctl("template reload", "r_restart")
    /\ UNCHANGED <<fsVars, act, ghostVars, snap, wlog, genlog>>

\* install.py:251
RemoveRestart ==
    /\ pc = "r_restart"
    /\ configctl("captiveportal restart", "done")
    /\ UNCHANGED <<fsVars, act, ghostVars, snap, wlog, genlog>>

(* ---------------- --gen-secret ---------------- *)
\* install.py:279-280
RegenerateSecret ==
    /\ pc = "g_gen"
    /\ gen_secret("done")
    /\ UNCHANGED <<cfg, backups, clock, plugin, nextUuid, act, ghostVars, snap, wlog, cmds>>

(* ---------------- environment ---------------- *)
\* the process is killed between two statements
Crash ==
    /\ pc \notin Stopped
    /\ pc' = "crashed"
    /\ UNCHANGED <<fsVars, act, ghostVars, snap, wlog, genlog, cmds>>

Next ==
    \/ main
    \/ InstallCopyConnector
    \/ InstallSecret
    \/ InstallBackup
    \/ InstallUpdateConfig
    \/ InstallPack
    \/ InstallEmbedTemplate
    \/ InstallReload
    \/ InstallRestart
    \/ RemoveBackup
    \/ RemoveConfig
    \/ RemoveConnector
    \/ RemoveSecret
    \/ RemoveReload
    \/ RemoveRestart
    \/ RegenerateSecret
    \/ Crash

Spec == Init /\ [][Next]_vars

(* ---------------- properties ---------------- *)
AllInstalls == \A i \in DOMAIN hist : hist[i] = "install"

\* the statements of do_install after embed_template has returned
AfterEmbed == act = "install" /\ pc \in {"i_reload", "i_restart", "done"}

\* C1: when the document starts with exactly one authserver of type
\* sharedtotp and every action run so far is an install, the document holds
\* exactly one authserver of type sharedtotp, after any number of installs.
C1_NoDuplicateAuthserver ==
    (AllInstalls /\ CountTotp(cfgInit.auths) = 1) => CountTotp(cfg.auths) = 1

\* two installs in a row have completed on a document that had one entry
C1_Witness ==
    /\ hist = <<"install", "install">>
    /\ allDone /\ pc = "done"
    /\ CountTotp(cfgInit.auths) = 1

\* C2: when install has returned, the authservers field of every zone that
\* has one equals the name of the sharedtotp authserver of the document (the
\* first one, which is the one install found or created), whatever that name.
C2_ZonesBoundToEntryName ==
    (act = "install" /\ pc = "done") =>
        /\ CountTotp(cfg.auths) >= 1
        /\ \A i \in DOMAIN cfg.zones :
              cfg.zones[i].authservers # Absent =>
                  cfg.zones[i].authservers = TotpEntries(cfg.auths)[1].name

\* C3: once embed_template has returned, the templates collection has exactly
\* one entry and the template field of every zone is that entry's uuid.
C3_OneTemplateAllZones ==
    AfterEmbed =>
        /\ cfg.templatesEl
        /\ Len(cfg.templates) = 1
        /\ \A i \in DOMAIN cfg.zones : cfg.zones[i].template = cfg.templates[1].uuid

\* an install has completed on a document with a template entry of its own
\* and a zone that had no template field
C3_Witness ==
    /\ act = "install" /\ pc = "done"
    /\ Len(cfg0.templates) = 1
    /\ \E i \in DOMAIN cfg0.zones : cfg0.zones[i].template = Absent

\* no sharedtotp authserver, and every zone bound to the voucher server
Pristine(doc) ==
    /\ CountTotp(doc.auths) = 0
    /\ \A i \in DOMAIN doc.zones : doc.zones[i].authservers = VOUCHER_NAME

\* C4: a completed install followed by a completed remove on a pristine
\* document leaves every zone bound to "voucher server" with an empty
\* template reference, no sharedtotp authserver and no template entry.
C4_RoundTrip ==
    (hist = <<"install", "remove">> /\ allDone /\ pc = "done" /\ Pristine(cfgInit)) =>
        /\ \A i \in DOMAIN cfg.zones :
              /\ cfg.zones[i].authservers = VOUCHER_NAME
              /\ cfg.zones[i].template = Empty
        /\ Len(cfg.zones) = Len(cfgInit.zones)
        /\ CountTotp(cfg.auths) = 0
        /\ cfg.templates = <<>>

\* the round trip has completed on a pristine document that has a zone
C4_Witness ==
    /\ hist = <<"install", "remove">> /\ allDone /\ pc = "done"
    /\ Pristine(cfgInit)
    /\ Len(cfgInit.zones) >= 1

\* C5: every write of config.xml by the current action was made with a backup
\* taken since the previous write and holding the content being overwritten.
C5_EveryWriteBackedUp == wlog.guarded

\* C6: when config.xml has no captiveportal section at the start of an
\* install or a remove, the action writes nothing to config.xml, leaves its
\* content as it was, and does not run to completion.
C6_NoCaptivePortalNoWrite ==
    (act \in {"install", "remove"} /\ ~cfg0.cp) =>
        /\ wlog.n = 0
        /\ cfg = cfg0
        /\ pc # "done"

\* C7 (state part): whenever config.xml differs from its content at the start
\* of the current action, some backup file holds exactly that content.
C7_StartContentBackedUp ==
    (act \in {"install", "remove"} /\ cfg # cfg0) =>
        \E t \in DOMAIN backups : backups[t] = cfg0

\* C7: whenever config.xml differs from its content at the start of the
\* current install or remove, also after a crash or a fatal error, a backup
\* file holds exactly the start content; and no step of the action puts the
\* start content back into config.xml.
C7_RecoverableOnlyFromBackup ==
    /\ []C7_StartContentBackedUp
    /\ [][(cfg # cfg0 /\ cfg0' = cfg0) => cfg' # cfg0]_vars

\* an install was killed after its first write of config.xml
C7_Witness ==
    /\ act = "install" /\ pc = "crashed"
    /\ cfg # cfg0
    /\ wlog.n = 1

\* C8 as claimed: after install, every template entry that was in the
\* collection before the install and does not carry the tool's template name
\* is still in the collection, unchanged.
C8_OtherTemplatesKept ==
    AfterEmbed =>
        \A i \in DOMAIN cfg0.templates :
            cfg0.templates[i].name # TEMPLATE_NAME =>
                \E j \in DOMAIN cfg.templates : cfg.templates[j] = cfg0.templates[i]

\* C8 as amended: once embed_template has returned, no template entry that
\* was in the collection before the install is left in it, whoever created
\* it: the collection holds just the entry this install created.
C8_AllOldTemplatesRemoved ==
    AfterEmbed =>
        /\ \A i \in DOMAIN cfg0.templates :
              \A j \in DOMAIN cfg.templates : cfg.templates[j].uuid # cfg0.templates[i].uuid
        /\ \E j \in DOMAIN cfg.templates :
              /\ cfg.templates[j].name = TEMPLATE_NAME
              /\ cfg.templates[j].uuid = Uuid4(nextUuid - 1)

\* an install has completed on a document that held a template entry the
\* tool did not create
C8_Witness ==
    /\ act = "install" /\ pc = "done"
    /\ \E i \in DOMAIN cfg0.templates : cfg0.templates[i].name # TEMPLATE_NAME

\* C9: during and after an install the secret file is unchanged when it
\* existed at the start, and exists once the secret step has passed; a
\* completed --gen-secret leaves the file holding the generated value and
\* nothing else; a completed install leaves the file present and a completed
\* remove leaves it absent.
C9_SecretLifecycle ==
    /\ (act = "install" /\ secret0.exists) => secretFile = secret0
    /\ (act = "install" /\ pc \in {"i_backup", "i_update", "i_pack", "i_embed",
                                   "i_reload", "i_restart", "done"})
          => secretFile.exists /\ Len(secretFile.lines) = 1
    /\ (act = "gen_secret" /\ pc = "done") =>
          /\ secretFile.exists
          /\ genlog.secret # Empty
          /\ secretFile.lines = <<genlog.secret>>
    /\ (act = "remove" /\ pc \in {"r_reload", "r_restart", "done"}) => ~secretFile.exists

\* a --gen-secret has completed over a secret file that already existed, and
\* the value changed
C9_Witness ==
    /\ act = "gen_secret" /\ pc = "done"
    /\ secret0.exists
    /\ secretFile.lines # secret0.lines

\* C10: when chmod or chown of the secret file fails in gen_secret, the
\* action ends in a fatal error there: the provisioning URI is not printed
\* and config.xml is not written.
C10_PermissionFailureIsFatal ==
    (genlog.ran /\ (genlog.chmod = "failed" \/ genlog.chown = "failed")) =>
        /\ pc = "fatal"
        /\ ~genlog.uri
        /\ wlog.n = 0

\* the configuration writes an action makes when it gets as far as configctl
WritesOf(a) == IF a = "install" THEN 2 ELSE 1

\* C11 (state part): a configctl command has run only when every write of
\* config.xml of the action is done; the commands run in the order reload,
\* restart; a command that returned non-zero is the last one run and the
\* action has ended in a fatal error.
C11_CommandsAfterWrites ==
    (act \in {"install", "remove"} /\ cmds # <<>>) =>
        /\ wlog.n = WritesOf(act)
        /\ Len(cmds) <= 2
        /\ cmds[1].cmd = "template reload"
        /\ Len(cmds) = 2 => cmds[2].cmd = "captiveportal restart"
        /\ \A i \in DOMAIN cmds :
              ~cmds[i].ok => (i = Len(cmds) /\ pc = "fatal")

\* C11: in install and remove the configctl commands run only after every
\* write of config.xml of the action; a non-zero exit ends the action in a
\* fatal error without running the next command; and from the first command
\* on, no step of the action changes config.xml (nothing is rolled back).
C11_ReloadAfterWritesNoRollback ==
    /\ []C11_CommandsAfterWrites
    /\ [][(cmds' # <<>> /\ hist' = hist) => cfg' = cfg]_vars

\* the reload command of an install returned non-zero after both writes
C11_Witness ==
    /\ act = "install" /\ pc = "fatal"
    /\ Len(cmds) = 1 /\ ~cmds[1].ok
    /\ cfg # cfg0

\* the last two actions started are removes and every earlier action completed
RemoveAgain ==
    /\ Len(hist) >= 2
    /\ hist[Len(hist)] = "remove"
    /\ hist[Len(hist) - 1] = "remove"
    /\ allDone

\* C12: a remove ends in a fatal error only when a configctl command returned
\* non-zero, whatever is absent already; and throughout a remove that follows
\* a completed remove, config.xml is as the first remove left it and the
\* secret file and the auth connector stay absent.
C12_RemoveRerunSafe ==
    /\ (act = "remove" /\ pc = "fatal") =>
          (cmds # <<>> /\ ~cmds[Len(cmds)].ok)
    /\ RemoveAgain =>
          /\ cfg = cfg0
          /\ secretFile = secret0
          /\ ~secretFile.exists
          /\ ~plugin

\* a second remove in a row has completed on a document that started with
\* two sharedtotp entries
C12_Witness ==
    /\ hist = <<"remove", "remove">>
    /\ allDone /\ pc = "done"
    /\ CountTotp(cfgInit.auths) = 2

\* C13 as claimed: a step that changes the backup files adds exactly one new
\* file, and every backup file that existed before the step is still there
\* with the same content.
C13_BackupsAppendOnly ==
    [][/\ \A t \in DOMAIN backups : t \in DOMAIN backups' /\ backups'[t] = backups[t]
       /\ backups' # backups =>
             Cardinality(DOMAIN backups') = Cardinality(DOMAIN backups) + 1]_vars

\* C13 as amended: no step removes a backup file, and the only backup file a
\* step can change is the one named by the second at which the step takes
\* its snapshot, which then holds config.xml as it stood; backup files of
\* other seconds keep their content.
C13_BackupsKeptExceptSameSecond ==
    [][\A t \in DOMAIN backups :
          /\ t \in DOMAIN backups'
          /\ backups'[t] # backups[t] =>
                (t = clock' /\ snap'.fresh /\ snap'.at = t /\ backups'[t] = cfg)]_vars

\* two snapshots taken in different seconds are both on disk, the older one
\* holding the first document and the newer one a different document
C13_Witness ==
    /\ Len(hist) = 2
    /\ DOMAIN backups = {0, 1}
    /\ backups[0] = cfgInit
    /\ backups[1] # cfgInit

\* C14: when do_install is about to read the assets and build the archive,
\* the secret step is over, no backup has been taken and config.xml has not
\* been written: it still has its content from the start of the install.
C14_PackBeforeBackupAndWrite ==
    (act = "install" /\ pc = "i_pack") =>
        /\ secretFile.exists
        /\ ~snap.fresh
        /\ wlog.n = 0
        /\ cfg = cfg0

\* C15: when an install starts on a document that has an authserver of type
\* sharedtotp, the authserver entries stay exactly as they were throughout
\* the install: same entries, same order, same refid, type and name.
C15_ExistingEntryUntouched ==
    (act = "install" /\ Existing(cfg0.auths)) => cfg.auths = cfg0.auths

\* an install has completed on a document whose sharedtotp entry carries a
\* name other than the fixed display name
C15_Witness ==
    /\ act = "install" /\ pc = "done"
    /\ CountTotp(cfg0.auths) = 1
    /\ TotpEntries(cfg0.auths)[1].name = "Guest TOTP"

\* the uuids of the entries of a templates collection
TemplateIds(doc) == { doc.templates[j].uuid : j \in DOMAIN doc.templates }

\* every zone's template reference is absent, empty or the uuid of an entry
NoDangling(doc) ==
    \A i \in DOMAIN doc.zones :
        doc.zones[i].template \in {Absent, Empty} \cup TemplateIds(doc)

\* C16: starting from a document without a dangling template reference,
\* config.xml never has one, whatever actions ran and wherever they stopped;
\* and once embed_template has returned, the template uuid is not one the
\* document had before the install and no zone refers to such a uuid.
C16_TemplateReferencesResolve ==
    NoDangling(cfgInit) =>
        /\ NoDangling(cfg)
        /\ AfterEmbed =>
              /\ TemplateIds(cfg) \cap TemplateIds(cfg0) = {}
              /\ \A i \in DOMAIN cfg.zones : cfg.zones[i].template \notin TemplateIds(cfg0)

\* a second install has completed on a document whose zone referred first to
\* an operator's template and then to the template of the first install
C16_Witness ==
    /\ hist = <<"install", "install">>
    /\ allDone /\ pc = "done"
    /\ NoDangling(cfgInit)
    /\ \E i \in DOMAIN cfgInit.zones : cfgInit.zones[i].template = "ext-1"
    /\ \E i \in DOMAIN cfg0.zones : cfg0.zones[i].template \in TemplateIds(cfg0)

\* C17: the authserver entries whose type is not sharedtotp are, in the same
\* order and with the same fields, those of the first document, at every
\* point of every sequence of actions.
C17_OtherAuthserversKept ==
    OtherEntries(cfg.auths) = OtherEntries(cfgInit.auths)

\* install then remove have completed on a document that had an authserver
\* entry of another type and one without a type
C17_Witness ==
    /\ hist = <<"install", "remove">>
    /\ allDone /\ pc = "done"
    /\ Len(OtherEntries(cfgInit.auths)) >= 1
    /\ \E i \in DOMAIN cfgInit.auths : cfgInit.auths[i].type = Absent
    /\ cfg.auths # <<>>

====
